---- MODULE Spec2Model ----
(***************************************************************************)
(* Model of the face-enhancer web servers (src/web): request ingestion,    *)
(* the tiered enhancement engines and the response written per request.    *)
(*                                                                         *)
(* A request body is a sequence of tokens.  Each token stands for a run of *)
(* characters that the scanners of the source treat as a unit:             *)
(*   "DIMG"  the marker data:image/                                        *)
(*   "B"     png;base64,<base64 of a decodable raster image>               *)
(*   "CR" "LF" "SP"   carriage return, line feed, space                    *)
(*   "BND"   a multipart delimiter line prefix ------<boundary>            *)
(*   "CD"    Content-Disposition: form-data;                               *)
(*   "NIMG"  name="image"        "NPAR"  name="parameters"                 *)
(*   "XBAD"  a byte that is not valid UTF-8                                *)
(*   "{" "}" "[" "]" ","   JSON punctuation                                *)
(*   "kmode" ...   a JSON member name with its colon, "mode":              *)
(*   "ekmode" ...  the same with backslash-escaped quotes, \"mode\":       *)
(*   "v150" ...    a JSON value (numbers in hundredths: 1.5) and the       *)
(*                 space that ends it                                      *)
(*   "DEEP"  a JSON text nested deeper than the decoder's recursion limit  *)
(***************************************************************************)
EXTENDS Integers, Sequences, FiniteSets, TLC

----------------------------------------------------------------------------
(* Python string primitives over token sequences (0-based indices).        *)

Min(S) == CHOOSE x \in S : \A y \in S : x <= y

\* s[a:b]
Slice(s, a, b) == SubSeq(s, a + 1, b)

\* s.find(pat, start): lowest index >= start where pat occurs, else -1
Find(s, pat, start) ==
    LET cands == { i \in start .. (Len(s) - Len(pat)) :
                      SubSeq(s, i + 1, i + Len(pat)) = pat }
    IN  IF cands = {} THEN -1 ELSE Min(cands)

\* pat in s
Contains(s, pat) == Find(s, pat, 0) # -1

Whitespace == {"SP", "CR", "LF"}

\* s.strip()
Strip(s) ==
    LET keep == { i \in 1 .. Len(s) : s[i] \notin Whitespace }
    IN  IF keep = {} THEN << >>
        ELSE SubSeq(s, Min(keep), CHOOSE x \in keep : \A y \in keep : y <= x)

\* s.startswith(pat)
StartsWith(s, pat) == Len(s) >= Len(pat) /\ SubSeq(s, 1, Len(pat)) = pat

\* bytes.decode('utf-8', errors='ignore'): invalid bytes are dropped
DecodeUtf8Ignore(data) == SelectSeq(data, LAMBDA t : t # "XBAD")

----------------------------------------------------------------------------
(* JSON values as the decoder produces them.                               *)

\* a decoded JSON scalar: ty in {"num","str","bool"}; n is the number in
\* hundredths (or the truth value), s the string
Num(n)  == [ty |-> "num",  n |-> n, s |-> ""]
Str(s)  == [ty |-> "str",  n |-> 0, s |-> s]
Bool(b) == [ty |-> "bool", n |-> IF b THEN 1 ELSE 0, s |-> ""]

KeyName(tok) ==
    CASE tok \in {"kmode", "ekmode"}   -> "mode"
      [] tok \in {"kscale", "ekscale"} -> "scaleFactor"
      [] tok = "ksharp"    -> "sharpenStrength"
      [] tok = "knoise"    -> "noiseReduction"
      [] tok = "kcontrast" -> "contrast"
      [] tok = "kblend"    -> "blendWeight"
      [] tok = "kface"     -> "enableFaceEnhancement"
      [] tok = "kstrength" -> "strength"

KeyToks == {"kmode", "kscale", "ksharp", "knoise", "kcontrast", "kblend",
            "kface", "kstrength"}
EscapedKeyToks == {"ekmode", "ekscale"}

TokValue(tok) ==
    CASE tok = "v0"   -> Num(0)
      [] tok = "v50"  -> Num(50)
      [] tok = "v100" -> Num(100)
      [] tok = "v150" -> Num(150)
      [] tok = "v200" -> Num(200)
      [] tok = "v250" -> Num(250)
      [] tok = "v300" -> Num(300)
      [] tok = "vabc" -> Str("abc")
      [] tok = "vgfpgan" -> Str("gfpgan")
      [] tok = "vhybrid" -> Str("hybrid")
      [] tok = "vtraditional" -> Str("traditional")
      [] tok = "vfast" -> Str("fast")
      [] tok = "vxyz"  -> Str("xyz")
      [] tok = "vtrue"  -> Bool(TRUE)
      [] tok = "vfalse" -> Bool(FALSE)

ValToks == {"v0", "v50", "v100", "v150", "v200", "v250", "v300", "vabc",
            "vgfpgan", "vhybrid", "vtraditional", "vfast", "vxyz",
            "vtrue", "vfalse"}

\* Python truth value of a decoded value
ScalarTruthy(v) == IF v.ty = "str" THEN v.s # "" ELSE v.n # 0

EmptyMap == [k \in {} |-> Num(0)]

\* a decoded JSON document: a dict (d), a list of n items, or a scalar
Dict(d)   == [kind |-> "dict",   d |-> d,        n |-> 0, v |-> Num(0)]
List(n)   == [kind |-> "list",   d |-> EmptyMap, n |-> n, v |-> Num(0)]
Scalar(v) == [kind |-> "scalar", d |-> EmptyMap, n |-> 0, v |-> v]

\* bool(parameters)
Truthy(p) ==
    CASE p.kind = "dict"   -> DOMAIN p.d # {}
      [] p.kind = "list"   -> p.n > 0
      [] p.kind = "scalar" -> ScalarTruthy(p.v)

\* a decoded value as a member of a dict: a scalar as it is, a nested
\* container by its type and length
AsMember(p) ==
    CASE p.kind = "scalar" -> p.v
      [] p.kind = "dict"   -> [ty |-> "dict", n |-> Cardinality(DOMAIN p.d), s |-> ""]
      [] p.kind = "list"   -> [ty |-> "list", n |-> p.n, s |-> ""]

JsonErr  == [st |-> "err",  next |-> 0, val |-> Dict(EmptyMap)]
JsonDeep == [st |-> "deep", next |-> 0, val |-> Dict(EmptyMap)]

\* the decoder's scan of one value starting at token i (1-based): st is
\* "ok" with the value and the index after it, "err" for a syntax error,
\* "deep" when the nesting exhausts the recursion limit
RECURSIVE JsonValue(_, _)
RECURSIVE JsonMembers(_, _, _)
RECURSIVE JsonItems(_, _, _)
JsonValue(s, i) ==
    IF i > Len(s) THEN JsonErr
    ELSE IF s[i] \in ValToks
         THEN [st |-> "ok", next |-> i + 1, val |-> Scalar(TokValue(s[i]))]
    ELSE IF s[i] = "DEEP" THEN JsonDeep
    ELSE IF s[i] = "{"
         THEN IF i < Len(s) /\ s[i + 1] = "}"
              THEN [st |-> "ok", next |-> i + 2, val |-> Dict(EmptyMap)]
              ELSE JsonMembers(s, i + 1, EmptyMap)
    ELSE IF s[i] = "["
         THEN IF i < Len(s) /\ s[i + 1] = "]"
              THEN [st |-> "ok", next |-> i + 2, val |-> List(0)]
              ELSE JsonItems(s, i + 1, 0)
    ELSE JsonErr

\* the members of an object from the name at token i on; a later
\* duplicate name wins
JsonMembers(s, i, acc) ==
    IF i > Len(s) \/ s[i] \notin KeyToks THEN JsonErr
    ELSE LET v == JsonValue(s, i + 1)
             k == KeyName(s[i])
             d == [x \in (DOMAIN acc) \cup {k} |->
                      IF x = k THEN AsMember(v.val) ELSE acc[x]]
         IN  IF v.st # "ok" THEN v
             ELSE IF v.next > Len(s) THEN JsonErr
             ELSE IF s[v.next] = "," THEN JsonMembers(s, v.next + 1, d)
             ELSE IF s[v.next] = "}"
                  THEN [st |-> "ok", next |-> v.next + 1, val |-> Dict(d)]
             ELSE JsonErr

\* the items of an array from token i on, n of them already read
JsonItems(s, i, n) ==
    LET v == JsonValue(s, i)
    IN  IF v.st # "ok" THEN v
        ELSE IF v.next > Len(s) THEN JsonErr
        ELSE IF s[v.next] = "," THEN JsonItems(s, v.next + 1, n + 1)
        ELSE IF s[v.next] = "]"
             THEN [st |-> "ok", next |-> v.next + 1, val |-> List(n + 1)]
        ELSE JsonErr

\* json.loads(text): st = "ok" with the value, "err" for JSONDecodeError,
\* "deep" for RecursionError (not a JSONDecodeError)
JsonLoads(text) ==
    LET s == SelectSeq(text, LAMBDA t : t \notin Whitespace)
        r == JsonValue(s, 1)
    IN  IF r.st = "ok" /\ r.next # Len(s) + 1
        THEN [st |-> "err", val |-> Dict(EmptyMap)]
        ELSE [st |-> r.st, val |-> r.val]

\* params_str.replace('\\"', '"')
UnescapeQuotes(s) ==
    [i \in 1 .. Len(s) |->
        CASE s[i] = "ekmode"  -> "kmode"
          [] s[i] = "ekscale" -> "kscale"
          [] OTHER -> s[i]]

----------------------------------------------------------------------------
(* Request ingestion of the enhanced server                                *)
(* (EnhancedGFPGANServer.parse_multipart_data).                            *)

\* the record synthesized when no parameters were found
EnhancedDefaults ==
    Dict([k \in {"mode", "scaleFactor", "sharpenStrength", "noiseReduction",
                 "contrast", "blendWeight", "enableFaceEnhancement"} |->
            CASE k = "mode"            -> Str("gfpgan")
              [] k = "scaleFactor"     -> Num(200)
              [] k = "sharpenStrength" -> Num(120)
              [] k = "noiseReduction"  -> Num(600)
              [] k = "contrast"        -> Num(115)
              [] k = "blendWeight"     -> Num(80)
              [] k = "enableFaceEnhancement" -> Bool(TRUE)])

\* Method 1: the end of an inline data:image/ run that starts at image_start
InlineImageEnd(data_str, image_start) ==
    LET crlf == Find(data_str, <<"CR", "LF">>, image_start)
        lf   == Find(data_str, <<"LF">>, image_start)
        boundary_start == Find(data_str, <<"BND">>, image_start)
    IN  IF crlf # -1 THEN crlf
        ELSE IF lf # -1 THEN lf
        ELSE IF boundary_start # -1 THEN boundary_start
        ELSE Len(data_str)

\* Method 1: image_data, << >> standing for None
InlineImage(data_str) ==
    LET image_start == Find(data_str, <<"DIMG">>, 0)
    IN  IF image_start = -1 THEN << >>
        ELSE Strip(Slice(data_str, image_start,
                         InlineImageEnd(data_str, image_start)))

\* the value of the form field whose name token is `name`: found tells
\* whether separator and closing boundary were both located
FieldValue(data_str, name) ==
    LET field_start == Find(data_str, <<name>>, 0)
        sep == IF field_start = -1 THEN -1
               ELSE Find(data_str, <<"CR", "LF", "CR", "LF">>, field_start)
        data_start == sep + 4
        boundary_end == IF sep = -1 THEN -1
                        ELSE Find(data_str, <<"CR", "LF", "BND">>, data_start)
    IN  IF boundary_end = -1 THEN [found |-> FALSE, value |-> << >>]
        ELSE [found |-> TRUE,
              value |-> Strip(Slice(data_str, data_start, boundary_end))]

\* Method 2: the image form field, used when method 1 found nothing
FieldImage(data_str) ==
    LET f == FieldValue(data_str, "NIMG")
    IN  IF f.found /\ StartsWith(f.value, <<"DIMG">>) THEN f.value ELSE << >>

\* the parameters form field: st = "none" when the field or its JSON is
\* unusable, "ok" with the decoded value, "deep" when the decoder raised
\* something other than JSONDecodeError
FieldParameters(data_str) ==
    LET f == FieldValue(data_str, "NPAR")
        j == JsonLoads(f.value)
    IN  IF ~f.found \/ j.st = "err"
        THEN [st |-> "none", val |-> Dict(EmptyMap)]
        ELSE j

\* the index one past the brace that closes the JSON text opened at
\* params_start, or params_start when the braces never balance
RECURSIVE BraceScan(_, _, _, _)
BraceScan(data_str, params_start, i, brace_count) ==
    IF i >= Len(data_str) THEN params_start
    ELSE IF data_str[i + 1] = "{"
         THEN BraceScan(data_str, params_start, i + 1, brace_count + 1)
    ELSE IF data_str[i + 1] = "}"
         THEN IF brace_count - 1 = 0 THEN i + 1
              ELSE BraceScan(data_str, params_start, i + 1, brace_count - 1)
    ELSE BraceScan(data_str, params_start, i + 1, brace_count)

json_patterns ==
    << <<"{", "kmode">>, <<"{", "kscale">>,
       <<"{", "ekmode">>, <<"{", "ekscale">> >>

\* the legacy anchor scan, from pattern number p on
RECURSIVE LegacyParameters(_, _)
LegacyParameters(data_str, p) ==
    IF p > Len(json_patterns) THEN [st |-> "none", val |-> Dict(EmptyMap)]
    ELSE LET params_start == Find(data_str, json_patterns[p], 0)
             json_end == BraceScan(data_str, params_start, params_start, 0)
             j == JsonLoads(UnescapeQuotes(
                      Slice(data_str, params_start, json_end)))
         IN  IF params_start = -1 \/ j.st = "err"
             THEN LegacyParameters(data_str, p + 1)
             ELSE j

\* parse_multipart_data of the enhanced server: image (<< >> for None or
\* an empty string), params, and whether the outer handler caught an error
EnhancedParse(data) ==
    LET data_str == DecodeUtf8Ignore(data)
        m1 == InlineImage(data_str)
        image_data == IF m1 # << >> THEN m1 ELSE FieldImage(data_str)
        form == FieldParameters(data_str)
        legacy == IF form.st = "ok" /\ Truthy(form.val) THEN form
                  ELSE LegacyParameters(data_str, 1)
        parameters == IF legacy.st = "ok" /\ Truthy(legacy.val)
                      THEN legacy.val ELSE EnhancedDefaults
    IN  IF form.st = "deep" \/ legacy.st = "deep"
        THEN [image |-> << >>, params |-> Dict(EmptyMap), caught |-> TRUE]
        ELSE [image |-> image_data, params |-> parameters, caught |-> FALSE]

----------------------------------------------------------------------------
(* Request ingestion of the fast server                                    *)
(* (FastGFPGANServer.parse_multipart_data).                                *)

\* the fixed record the fast server uses instead of parsing JSON
FastDefaults ==
    Dict([k \in {"mode", "scaleFactor", "sharpenStrength", "contrast",
                 "enableFaceEnhancement"} |->
            CASE k = "mode"            -> Str("fast")
              [] k = "scaleFactor"     -> Num(200)
              [] k = "sharpenStrength" -> Num(100)
              [] k = "contrast"        -> Num(110)
              [] k = "enableFaceEnhancement" -> Bool(FALSE)])

FastParse(data) ==
    [image  |-> InlineImage(DecodeUtf8Ignore(data)),
     params |-> FastDefaults,
     caught |-> FALSE]

----------------------------------------------------------------------------
(* Request ingestion of the simulation server                              *)
(* (FaceEnhancerHTTPHandler.parse_multipart_data).  hdr abstracts the      *)
(* request headers as str(self.headers) shows them:                        *)
(*   "none"        no Content-Type: multipart/form-data line               *)
(*   "noboundary"  that line without boundary=                             *)
(*   "boundary"    the text after boundary= is the body's boundary         *)
(*   "trailing"    further header lines follow boundary=..., so the        *)
(*                 extracted text occurs nowhere in the body               *)

Headers == {"none", "noboundary", "boundary", "trailing"}

\* s.split(pat)
RECURSIVE Split(_, _)
Split(s, pat) ==
    LET i == Find(s, pat, 0)
    IN  IF i = -1 THEN <<s>>
        ELSE <<Slice(s, 0, i)>> \o Split(Slice(s, i + Len(pat), Len(s)), pat)

\* '\r\n'.join(lines)
RECURSIVE JoinCRLF(_)
JoinCRLF(lines) ==
    IF Len(lines) = 0 THEN << >>
    ELSE IF Len(lines) = 1 THEN lines[1]
    ELSE lines[1] \o <<"CR", "LF">> \o JoinCRLF(Tail(lines))

\* the lines that follow the first empty line
AfterBlankLine(lines) ==
    LET blanks == { i \in 1 .. Len(lines) : lines[i] = << >> }
    IN  IF blanks = {} THEN << >>
        ELSE SubSeq(lines, Min(blanks) + 1, Len(lines))

\* the image found in one part: found is FALSE when the part sets nothing
PartImage(part) ==
    LET image_lines == AfterBlankLine(Split(part, <<"CR", "LF">>))
        popped == IF image_lines[Len(image_lines)] = << >>
                  THEN SubSeq(image_lines, 1, Len(image_lines) - 1)
                  ELSE image_lines
    IN  IF image_lines = << >> THEN [found |-> FALSE, value |-> << >>]
        ELSE [found |-> TRUE, value |-> JoinCRLF(popped)]

\* the parameters found in one part: the first non-blank line after the
\* first empty line, when it decodes (any error is swallowed)
PartParameters(part) ==
    LET after == AfterBlankLine(Split(part, <<"CR", "LF">>))
        nonblank == { i \in 1 .. Len(after) : Strip(after[i]) # << >> }
        j == JsonLoads(after[Min(nonblank)])
    IN  IF nonblank = {} \/ j.st # "ok"
        THEN [found |-> FALSE, value |-> Dict(EmptyMap)]
        ELSE [found |-> TRUE, value |-> j.val]

\* the loop over the parts, first to last: a later part overrides
RECURSIVE PartsLoop(_, _, _)
PartsLoop(parts, image_data, parameters) ==
    IF parts = << >>
    THEN [image |-> image_data, params |-> parameters, caught |-> FALSE]
    ELSE LET part == Head(parts)
             img == PartImage(part)
             par == PartParameters(part)
         IN  IF ~Contains(part, <<"CD">>)
             THEN PartsLoop(Tail(parts), image_data, parameters)
             ELSE IF Contains(part, <<"NIMG">>)
             THEN PartsLoop(Tail(parts),
                            IF img.found THEN img.value ELSE image_data,
                            parameters)
             ELSE IF Contains(part, <<"NPAR">>)
             THEN PartsLoop(Tail(parts), image_data,
                            IF par.found THEN par.value ELSE parameters)
             ELSE PartsLoop(Tail(parts), image_data, parameters)

PythonParse(post_data, hdr) ==
    IF hdr \in {"none", "noboundary"}
    THEN [image |-> << >>, params |-> Dict(EmptyMap), caught |-> FALSE]
    ELSE PartsLoop(IF hdr = "boundary" THEN Split(post_data, <<"BND">>)
                   ELSE <<post_data>>,
                   << >>, Dict(EmptyMap))

----------------------------------------------------------------------------
(* Parameter access and image decoding shared by the engines.              *)

\* parameters.get(key, default); the caller checks IsDict first
Get(p, key, default) == IF key \in DOMAIN p.d THEN p.d[key] ELSE default

\* parameters has a .get method
IsDict(p) == p.kind = "dict"

\* float(v) succeeds
Floatable(v) == v.ty \in {"num", "bool"}

\* float(v), in hundredths
Float(v) == IF v.ty = "bool" THEN 100 * v.n ELSE v.n

\* min(a, b)
MinOf(a, b) == IF a < b THEN a ELSE b

\* every float(parameters.get(k, ...)) of keys succeeds
FloatsOk(p, keys) ==
    IsDict(p) /\ \A k \in keys \cap DOMAIN p.d : Floatable(p.d[k])

\* base64.b64decode(image_data.split(',')[1]) followed by image decoding
\* yields a raster: the payload is the marker and one image chunk, with
\* nothing but characters outside the base64 alphabet around them
Decodable(image_data) ==
    SelectSeq(image_data, LAMBDA t : t \notin Whitespace) = <<"DIMG", "B">>

\* int(n * scale_factor), scale in hundredths
Scaled(n, scale) == (n * scale) \div 100

\* round(num / den, 1), in hundredths; a tie goes to the even digit
Round1(num, den) ==
    LET q == (10 * num) \div den
        r == (10 * num) % den
    IN  IF 2 * r < den THEN 10 * q
        ELSE IF 2 * r > den THEN 10 * (q + 1)
        ELSE IF q % 2 = 0 THEN 10 * q ELSE 10 * (q + 1)

\* a pixel buffer: its size and the transforms applied to the decoded image
Frame(w, h, ops) == [w |-> w, h |-> h, ops |-> ops]

\* a result dict; enhanced tells whether it carries enhancedImage, frame is
\* the encoded buffer, scale_factor is in hundredths (-1 when absent)
Result(success, method, enhanced, frame, quality, scale_factor, error) ==
    [success |-> success, method |-> method, enhanced |-> enhanced,
     frame |-> frame, quality |-> quality, scale_factor |-> scale_factor,
     error |-> error, faces_detected |-> 0, algorithms_applied |-> << >>]

\* a result dict with its processing_details
Details(r, faces_detected, algorithms_applied) ==
    [r EXCEPT !.faces_detected = faces_detected,
              !.algorithms_applied = algorithms_applied]

NoFrame == Frame(0, 0, << >>)
NoResult == Result(FALSE, "", FALSE, NoFrame, 0, -1, "")

----------------------------------------------------------------------------
(* The primary engine of the enhanced server.                              *)

\* the stages of apply_real_enhancement plus decode and encode, the places
\* where a pixel primitive can raise
PrimaryFaults == {"none", "decode", "upscale", "denoise", "sharpen",
                  "contrast", "equalize", "face_cascade", "face_detect",
                  "face_process", "color", "polish", "encode"}

\* minSize=(50, 50) of face_cascade.detectMultiScale
MinFace == 50

\* len(faces): the faces the detector returns for a frame that shows
\* `faces` faces
Detected(image, faces) ==
    IF image.w >= MinFace /\ image.h >= MinFace THEN faces ELSE 0

\* a loop body that also runs without a face (sensitivity variant for C14)
FaceOpsAtLeastOnce(faces_count) ==
    [i \in 1 .. (IF faces_count = 0 THEN 1 ELSE faces_count) |-> "face_blend"]

\* the transforms the loop of enhance_faces applies for faces_count faces
FaceOps(faces_count) == [i \in 1 .. faces_count |-> "face_blend"]

\* padding = 10 of the face region
padding == 10

\* max(a, b)
MaxOf(a, b) == IF a > b THEN a ELSE b

\* a face region padded without regard to the frame (sensitivity variant
\* for C27)
FaceRegionUnclamped(image, x, y, w, h) ==
    [face_x1 |-> x - padding, face_y1 |-> y - padding,
     face_x2 |-> x + w + padding, face_y2 |-> y + h + padding]

\* the corners of the region enhance_faces cuts out for the face box
\* (x, y, w, h): image.shape[1] is the width, image.shape[0] the height
FaceRegion(image, x, y, w, h) ==
    [face_x1 |-> MaxOf(0, x - padding),
     face_y1 |-> MaxOf(0, y - padding),
     face_x2 |-> MinOf(image.w, x + w + padding),
     face_y2 |-> MinOf(image.h, y + h + padding)]

\* a loop that composites into the buffer it was handed (sensitivity
\* variant for C26)
FaceBufferAliased(handed) == handed

\* enhanced = image.copy(): the buffer the loop of enhance_faces writes to
\* is a new one, whatever buffer was handed in
FaceBuffer(handed) == "enhanced"

\* enhance_faces(image): frame is the returned buffer, attr the value
\* assigned to self._faces_detected (-1: no assignment), image the handed
\* buffer as the call leaves it.  A fault while a face is processed
\* ("face_process": it strikes at the last face, the faces before it
\* already composited into the working buffer) makes the except clause
\* return image
enhance_faces(image, faces, fault) ==
    LET faces_count == Detected(image, faces)
        struck == fault = "face_process" /\ faces_count > 0
        composited == IF struck THEN faces_count - 1 ELSE faces_count
        target == FaceBuffer("image")
        \* the two buffers when the function returns
        heap == [b \in {"image", "enhanced"} |->
                    IF b = target
                    THEN Frame(image.w, image.h,
                               image.ops \o FaceOps(composited))
                    ELSE image]
    IN  IF fault \in {"face_cascade", "face_detect"}
        THEN [frame |-> image, attr |-> -1, image |-> image]
        ELSE IF struck
        THEN [frame |-> heap["image"], attr |-> faces_count,
              image |-> heap["image"]]
        ELSE [frame |-> heap[target], attr |-> faces_count,
              image |-> heap["image"]]

\* an upscale guard that also fires at 1.0 (sensitivity variant for C10)
UpscaleRunsFromOne(scale_factor) == scale_factor >= 100

\* stage 1 runs
UpscaleRuns(scale_factor) == scale_factor > 100

\* a face stage gated by the flag alone (sensitivity variant for C11)
FaceStageRunsAnyMode(mode, enable_face_enhancement) ==
    ScalarTruthy(enable_face_enhancement)

\* the face stage runs
FaceStageRuns(mode, enable_face_enhancement) ==
    mode \in {Str("gfpgan"), Str("hybrid")} /\ ScalarTruthy(enable_face_enhancement)

\* the per-key defaults of apply_real_enhancement, in hundredths
PrimaryDefaults ==
    [scaleFactor |-> 200, sharpenStrength |-> 120, noiseReduction |-> 600,
     contrast |-> 115, blendWeight |-> 80]

\* stages 1 to 5 with the sharpening ahead of the noise reduction
\* (sensitivity variant for C25)
StagesSharpenFirst(kernel, up, den, shp) ==
    (IF up THEN <<kernel>> ELSE << >>)
    \o (IF shp THEN <<"unsharp", "edge_kernel_blend">> ELSE << >>)
    \o (IF den THEN <<"bilateral">> ELSE << >>)
    \o <<"contrast_gain", "clahe_luma">>

\* the transforms of stages 1 to 5 in the order the function applies them
\* to `enhanced`: upscale, noise reduction, sharpening, contrast gain,
\* equalization of the luma channel
StagesBeforeFace(kernel, up, den, shp) ==
    (IF up THEN <<kernel>> ELSE << >>)
    \o (IF den THEN <<"bilateral">> ELSE << >>)
    \o (IF shp THEN <<"unsharp", "edge_kernel_blend">> ELSE << >>)
    \o <<"contrast_gain", "clahe_luma">>

\* what apply_real_enhancement leaves behind once stages 1 to 5 produced
\* `before` and the face stage, if it ran, returned fr: held lists the
\* buffers others still hold, namely the decoded input (every stage binds
\* `enhanced` to a new array and none writes into `image`) and the buffer
\* handed to enhance_faces, as handed and as the call left it
PrimaryOutcome(image, before, face, raised_before, raised_after, fr) ==
    IF raised_before
    THEN [raised |-> TRUE, frame |-> NoFrame, face_calls |-> 0, attr |-> -1,
          held |-> [image |-> image, face_given |-> before,
                    face_input |-> before]]
    ELSE [raised |-> raised_after,
          frame |-> IF raised_after THEN NoFrame
                    ELSE Frame(fr.frame.w, fr.frame.h,
                               fr.frame.ops \o <<"hsv_boost", "polish">>),
          face_calls |-> IF face THEN 1 ELSE 0, attr |-> fr.attr,
          held |-> [image |-> image, face_given |-> before,
                    face_input |-> fr.image]]

\* apply_real_enhancement(image, parameters, mode): raised tells whether an
\* exception left the function, frame is the returned buffer, face_calls
\* counts the calls of enhance_faces and attr is what the call assigned to
\* self._faces_detected (-1: nothing)
apply_real_enhancement(image, parameters, mode, faces, fault) ==
    LET value(key) == Float(Get(parameters, key, Num(PrimaryDefaults[key])))
        scale_factor     == value("scaleFactor")
        sharpen_strength == value("sharpenStrength")
        noise_reduction  == value("noiseReduction")
        enable_face      == Get(parameters, "enableFaceEnhancement", Bool(TRUE))
        up   == UpscaleRuns(scale_factor)
        den  == noise_reduction > 0
        shp  == sharpen_strength > 0
        face == FaceStageRuns(mode, enable_face)
        kernel == IF mode = Str("gfpgan") THEN "resize:LANCZOS4"
                  ELSE "resize:CUBIC"
        before == Frame(IF up THEN Scaled(image.w, scale_factor) ELSE image.w,
                        IF up THEN Scaled(image.h, scale_factor) ELSE image.h,
                        image.ops \o StagesBeforeFace(kernel, up, den, shp))
        raised_before ==
            \/ ~FloatsOk(parameters, {"scaleFactor", "sharpenStrength",
                    "noiseReduction", "contrast", "blendWeight"})
            \/ fault = "upscale" /\ up
            \/ fault = "denoise" /\ den
            \/ fault = "sharpen" /\ shp
            \/ fault \in {"contrast", "equalize"}
        raised_after == fault \in {"color", "polish"}
    IN  PrimaryOutcome(image, before, face, raised_before, raised_after,
                       IF face THEN enhance_faces(before, faces, fault)
                       ELSE [frame |-> before, attr |-> -1, image |-> before])

\* processing_details.algorithms_applied of enhance_image_opencv
EnhancedAlgorithms ==
    <<"Upscaling", "Noise Reduction", "Sharpening", "Face Enhancement",
      "Color Enhancement">>

\* f'OpenCV + {mode.upper()} Enhancement' for the mode strings in use
OpenCvMethod(mode) ==
    CASE mode = "gfpgan" -> "OpenCV + GFPGAN Enhancement"
      [] mode = "hybrid" -> "OpenCV + HYBRID Enhancement"
      [] mode = "traditional" -> "OpenCV + TRADITIONAL Enhancement"
      [] mode = "fast" -> "OpenCV + FAST Enhancement"
      [] OTHER -> "OpenCV + XYZ Enhancement"

\* the try block of enhance_image_opencv: raised tells whether control
\* reached the except clause, result is the dict returned otherwise
EnhancedPrimary(image_data, parameters, w, h, faces, attr0, fault) ==
    LET mode == Get(parameters, "mode", Str("gfpgan"))
        run  == apply_real_enhancement(Frame(w, h, << >>), parameters, mode,
                                       faces, fault)
        \* the attribute after the run: assigned by it, or as it was
        attr == IF run.attr = -1 THEN attr0 ELSE run.attr
    IN  IF \/ ~Decodable(image_data) \/ fault = "decode"
           \/ ~IsDict(parameters)
        THEN [raised |-> TRUE, result |-> NoResult, face_calls |-> 0,
              attr |-> attr0]
        ELSE IF run.raised \/ fault = "encode" \/ mode.ty # "str"
        THEN [raised |-> TRUE, result |-> NoResult,
              face_calls |-> run.face_calls, attr |-> attr]
        ELSE [raised |-> FALSE,
              result |-> Details(Result(TRUE, OpenCvMethod(mode.s), TRUE,
                                        run.frame, 95,
                                        Round1(run.frame.w, w), ""),
                                 \* getattr(self, '_faces_detected', 0)
                                 IF attr = -1 THEN 0 ELSE attr,
                                 EnhancedAlgorithms),
              face_calls |-> run.face_calls, attr |-> attr]

----------------------------------------------------------------------------
(* The secondary (PIL) engine of the enhanced server                       *)
(* (EnhancedGFPGANServer.basic_pil_enhancement).                           *)

PilOps == <<"Contrast", "Sharpness", "UnsharpMask", "DETAIL">>

\* the resize of basic_pil_enhancement runs
PilUpscaleRuns(scale_factor) == scale_factor > 100

\* the per-key defaults of basic_pil_enhancement, in hundredths
PilDefaults == [scaleFactor |-> 200, sharpenStrength |-> 150, contrast |-> 120]

\* pil_available: the PIL names were imported; fault: a PIL call raises
EnhancedPil(image_data, parameters, w, h, pil_available, fault) ==
    LET scale_factor == Float(Get(parameters, "scaleFactor",
                                  Num(PilDefaults.scaleFactor)))
        up == PilUpscaleRuns(scale_factor)
    IN  IF \/ ~Decodable(image_data) \/ ~pil_available \/ fault
           \/ ~FloatsOk(parameters, {"scaleFactor", "sharpenStrength",
                                     "contrast"})
        THEN Result(FALSE, "", FALSE, NoFrame, 0, -1, "Enhancement failed")
        ELSE Result(TRUE, "PIL Enhanced Processing", TRUE,
                    Frame(IF up THEN Scaled(w, scale_factor) ELSE w,
                          IF up THEN Scaled(h, scale_factor) ELSE h,
                          (IF up THEN <<"resize:LANCZOS">> ELSE << >>)
                             \o PilOps),
                    95, scale_factor, "")

----------------------------------------------------------------------------
(* The engines of the fast server.                                         *)

\* the per-key defaults of apply_fast_enhancement, in hundredths
FastPrimaryDefaults ==
    [scaleFactor |-> 200, sharpenStrength |-> 100, contrast |-> 110]

\* the per-key defaults of the fast server's basic_pil_enhancement
FastPilDefaults ==
    [scaleFactor |-> 200, sharpenStrength |-> 120, contrast |-> 110]

\* apply_fast_enhancement(image, parameters)
apply_fast_enhancement(image, parameters, fault) ==
    LET value(key) ==
            Float(Get(parameters, key, Num(FastPrimaryDefaults[key])))
        scale_factor == MinOf(value("scaleFactor"), 250)
        sharpen_strength == MinOf(value("sharpenStrength"), 150)
        contrast == MinOf(value("contrast"), 130)
        up  == scale_factor > 100
        shp == sharpen_strength > 0
        con == contrast > 100
        ops == (IF up THEN <<"resize:LINEAR">> ELSE << >>)
               \o (IF shp THEN <<"sharpen_kernel">> ELSE << >>)
               \o (IF con THEN <<"contrast_gain">> ELSE << >>)
               \o <<"brightness">>
        raised ==
            \/ ~FloatsOk(parameters, {"scaleFactor", "sharpenStrength",
                                      "contrast"})
            \/ fault = "upscale" /\ up
            \/ fault = "sharpen" /\ shp
            \/ fault = "contrast" /\ con
            \/ fault = "color"
    IN  IF raised THEN [raised |-> TRUE, frame |-> NoFrame]
        ELSE [raised |-> FALSE,
              frame |-> Frame(IF up THEN Scaled(image.w, scale_factor) ELSE image.w,
                              IF up THEN Scaled(image.h, scale_factor) ELSE image.h,
                              ops)]

\* processing_details.algorithms_applied of fast_enhance_image
FastAlgorithms ==
    <<"Fast Upscaling", "Quick Sharpening", "Instant Enhancement">>

\* the try block of fast_enhance_image; the fast server has no face stage
FastPrimary(image_data, parameters, w, h, fault) ==
    LET run == apply_fast_enhancement(Frame(w, h, << >>), parameters, fault)
    IN  IF \/ ~Decodable(image_data) \/ fault = "decode"
           \/ run.raised
           \/ fault = "encode"
        THEN [raised |-> TRUE, result |-> NoResult, face_calls |-> 0,
              attr |-> -1]
        ELSE [raised |-> FALSE,
              result |-> Details(Result(TRUE, "Ultra-Fast OpenCV Enhancement",
                                        TRUE, run.frame, 90,
                                        Round1(run.frame.w, w), ""),
                                 0, FastAlgorithms),
              face_calls |-> 0, attr |-> -1]

\* FastGFPGANServer.basic_pil_enhancement
FastPil(image_data, parameters, w, h, pil_available, fault) ==
    LET value(key) == Float(Get(parameters, key, Num(FastPilDefaults[key])))
        scale_factor == MinOf(value("scaleFactor"), 200)
        sharpen_strength == MinOf(value("sharpenStrength"), 150)
        contrast == MinOf(value("contrast"), 130)
        up == scale_factor > 100
    IN  IF \/ ~Decodable(image_data) \/ ~pil_available \/ fault
           \/ ~FloatsOk(parameters, {"scaleFactor", "sharpenStrength",
                                     "contrast"})
        THEN Result(FALSE, "", FALSE, NoFrame, 0, -1, "Fast enhancement failed")
        ELSE Result(TRUE, "Fast PIL Processing", TRUE,
                    Frame(IF up THEN Scaled(w, scale_factor) ELSE w,
                          IF up THEN Scaled(h, scale_factor) ELSE h,
                          (IF up THEN <<"resize:BILINEAR">> ELSE << >>)
                             \o (IF contrast > 100 THEN <<"Contrast">> ELSE << >>)
                             \o (IF sharpen_strength > 100 THEN <<"Sharpness">>
                                 ELSE << >>)),
                    85, scale_factor, "")

----------------------------------------------------------------------------
(* The simulation server (FaceEnhancerHTTPHandler).                        *)

\* the three metrics can be computed: parameters.get exists and
\* 25 + strength * 3 is arithmetic
MetricsOk(parameters) ==
    /\ IsDict(parameters)
    /\ Get(parameters, "strength", Num(150)).ty \in {"num", "bool"}

\* a passthrough that answers an empty parameter record with the test
\* image (sensitivity variant for C15)
SimulateEnhancementOnce(image_data, parameters) ==
    IF IsDict(parameters) /\ DOMAIN parameters.d = {}
    THEN Frame(0, 0, <<"DIMG", "test_image">>)
    ELSE Frame(0, 0, image_data)

\* simulate_enhancement: the payload is returned as it is when it starts
\* with data:image, and is otherwise base64-encoded behind a JPEG header;
\* ops records which of the two happened
SimulateEnhancement(image_data, parameters) ==
    IF StartsWith(image_data, <<"DIMG">>) THEN Frame(0, 0, image_data)
    ELSE Frame(0, 0, <<"DIMG", "b64of">> \o image_data)

----------------------------------------------------------------------------
(* Requests.                                                               *)

MaxWidth == 3
MaxHeight == 2
MaxFaces == 2

\* the side of the 100 x 100 raster of the fast-path scenario
ScenarioSide == 100

\* the image part of a body
ImageParts ==
    { << >>,
      <<"BND", "CR", "LF", "CD", "NIMG", "CR", "LF", "CR", "LF",
        "DIMG", "B", "CR", "LF">>,
      <<"DIMG", "B">>,
      <<"DIMG", "B", "LF">>,
      <<"BND", "CR", "LF", "CD", "NIMG", "CR", "LF", "CR", "LF",
        "DIMG", "CR", "LF">>,
      <<"BND", "CR", "LF", "CD", "NIMG", "CR", "LF", "CR", "LF",
        "B", "CR", "LF">> }

ScaleMembers ==
    { << >> } \cup { <<"kscale", v>> : v \in {"v50", "v100", "v150", "v250", "vabc"} }

OtherMembers ==
    { << >>,
      <<"kmode", "vhybrid">>, <<"kmode", "vfast">>, <<"kmode", "vxyz">>,
      <<"kmode", "v150">>,
      <<"knoise", "vabc">>, <<"knoise", "v0">>, <<"ksharp", "v0">>,
      <<"kcontrast", "vabc">>, <<"kface", "vfalse">>,
      <<"kstrength", "vabc">> }

\* the JSON text of an object with the given members
ObjectText(a, b) ==
    <<"{">> \o a \o (IF a # << >> /\ b # << >> THEN <<",">> ELSE << >>) \o b
            \o <<"}">>

\* JSON texts: objects of one member, objects that pair a scale factor of
\* 1.5 with another member, and texts that are no usable object
JsonTexts ==
    { ObjectText(a, << >>) : a \in ScaleMembers }
    \cup { ObjectText(<< >>, b) : b \in OtherMembers }
    \cup { ObjectText(<<"kscale", "v150">>, b) : b \in OtherMembers }
    \cup { <<"{", "kmode">>, <<"DEEP">>, <<"[", "v100", "]">> }

\* fragments outside any form field
LegacyTexts ==
    { <<"{", "kscale", "v250", "}">>, <<"{", "ekmode", "vfast", "}">>,
      <<"{", "kmode", "vxyz", ",", "kscale", "v100", "}">>, <<"{", "kmode">>,
      <<"{", "kmode", "{", "kscale", "v250", "}">>,
      <<"{", "kmode", "DEEP", "}">> }

\* the parameters part of a body: absent, a form field, or a bare fragment
ParamParts ==
    { << >> }
    \cup { <<"BND", "CR", "LF", "CD", "NPAR", "CR", "LF", "CR", "LF">> \o j
              \o <<"CR", "LF">> : j \in JsonTexts }
    \cup LegacyTexts

Bodies == { i \o p \o <<"BND">> : i \in ImageParts, p \in ParamParts }

Servers == {"enhanced", "fast", "python"}

----------------------------------------------------------------------------
(* The request handlers.                                                   *)

VARIABLES
    server,            \* which handler class serves
    available,         \* OPENCV_AVAILABLE (enhanced, fast); the C++
                       \* executable exists (python)
    waiting,           \* a connection waits in the listen queue
    pc,                \* position of the handler in the current request
    post_data, hdr,    \* the request: body and headers
    width, height,     \* the size of the raster the "B" chunk decodes to
    faces,             \* the faces that raster shows
    image_data, parameters,   \* what parse_multipart_data returned
    result,            \* the dict an engine returned
    responses,         \* the HTTP responses written for the request
    pil_calls,         \* calls of basic_pil_enhancement in the request
    face_calls,        \* calls of enhance_faces in the request
    faces_detected,    \* self._faces_detected of the handler object (-1:
                       \* the attribute does not exist)
    primary_returned,  \* the primary try block returned a result
    primary_raised,    \* the primary try block reached its except clause
    pil_raised,        \* basic_pil_enhancement reached its except clause
    parsed,            \* parse_multipart_data has returned
    fault, pil_fault,  \* the primitive that fails in this request, if any
    prior,             \* payload and enhancedImage of an earlier simulation
    face,              \* a box (x, y, w, h) the face detector returned
    face_region        \* the padded region cut out for that box

vars == <<server, available, waiting, pc, post_data, hdr, width, height,
          faces, image_data, parameters, result, responses, pil_calls,
          face_calls, faces_detected, primary_returned, primary_raised,
          pil_raised, parsed, fault, pil_fault, prior, face, face_region>>

\* the process: the class served and what exists on the machine
process == <<server, available>>
\* the request as it was read
request == <<post_data, hdr, width, height, faces>>
\* the face box in hand and its region
boxes == <<face, face_region>>
\* what the engines recorded
engines == <<pil_calls, face_calls, faces_detected, primary_returned,
             primary_raised, pil_raised, fault, pil_fault>>

\* the headers end_headers adds to every response of the enhanced and fast
\* handlers
CorsHeaders ==
    { <<"Access-Control-Allow-Origin", "*">>,
      <<"Access-Control-Allow-Methods", "GET, POST, OPTIONS">>,
      <<"Access-Control-Allow-Headers", "Content-Type">> }

\* end_headers of the serving class: the simulation handler inherits the
\* library's, which adds nothing
end_headers(srv) == IF srv = "python" THEN {} ELSE CorsHeaders

\* the header the simulation handler sends itself on its two API routes
AllowOrigin == { <<"Access-Control-Allow-Origin", "*">> }

\* an HTTP response: the status line, the CORS headers sent before the
\* blank line and the document written; kind tells a result dict
\* ("result") from a status dict ("status") and from any other document
Response(srv, status, kind, body, sent) ==
    [status |-> status, kind |-> kind, body |-> body, available |-> FALSE,
     headers |-> sent \cup end_headers(srv)]

\* a failure body that drops the error string (sensitivity variant for C2)
FailureWithoutError(error) == Result(FALSE, "", FALSE, NoFrame, 0, -1, "")

\* the body {"success": False, "error": message}
Failure(error) == Result(FALSE, "", FALSE, NoFrame, 0, -1, error)

\* the status dict: 'available' is the capability flag
StatusResponse(srv, flag) ==
    [Response(srv, 200, "status", NoResult,
              IF srv = "python" THEN AllowOrigin ELSE {})
        EXCEPT !.available = flag]

\* send_error_response(message) of the enhanced and fast servers
send_error_response(srv, message) ==
    Response(srv, 400, "result", Failure(message), {})

\* the except clause of handle_enhance_request
HandlerExcept(srv, error) ==
    IF srv = "python"
    THEN Response(srv, 500, "result", Failure(error), AllowOrigin)
    ELSE send_error_response(srv, "Server error: " \o error)

\* the answer to a request whose image_data is empty
NoImageResponse(srv) ==
    IF srv = "python"
    THEN Response(srv, 200, "result", Failure("No image data received"),
                  AllowOrigin)
    ELSE send_error_response(srv, "No image data received")

\* the 200 response that carries the result dict
ResultResponse(srv, body) ==
    Response(srv, 200, "result", body,
             IF srv = "python" THEN AllowOrigin ELSE {})

\* what a handler that answers with `response` inside its try block
\* emits: when the write of the body raises (the client has closed the
\* connection), the except clause of handle_enhance_request answers again
Answer(srv, response, broken) ==
    IF broken THEN <<response, HandlerExcept(srv, "write")>>
    ELSE <<response>>

\* parse_multipart_data of the serving class
Parse(srv, data, headers) ==
    CASE srv = "enhanced" -> EnhancedParse(data)
      [] srv = "fast"     -> FastParse(data)
      [] srv = "python"   -> PythonParse(data, headers)

\* a dispatch that enters the PIL engine whatever the primary path did
\* (sensitivity variant for C4)
AfterPrimaryAlwaysPil(opencv, raised) == "pil"

\* where enhance_image_opencv / fast_enhance_image goes after the primary
\* attempt: the PIL engine when OpenCV is missing or the try block raised
AfterPrimary(opencv, raised) ==
    IF ~opencv \/ raised THEN "pil" ELSE "respond"

\* a handler object reused with its attribute (sensitivity variant for C19)
HandlerAttrKept(previous) == previous

\* _faces_detected at the start of a request: TCPServer builds a new
\* handler object for every request, and a new object has no such attribute
HandlerAttr(previous) == -1

NoPrior == [image |-> << >>, out |-> NoFrame]

\* no face box in hand
NoFace == [x |-> 0, y |-> 0, w |-> 0, h |-> 0]
NoRegion == [face_x1 |-> 0, face_y1 |-> 0, face_x2 |-> 0, face_y2 |-> 0]
NoBoxes == face = NoFace /\ face_region = NoRegion

NoRequest ==
    /\ post_data = << >> /\ hdr = "none" /\ width = 1 /\ height = 1
    /\ faces = 0
    /\ image_data = << >> /\ parameters = Dict(EmptyMap)
    /\ result = NoResult /\ responses = << >>
    /\ pil_calls = 0 /\ face_calls = 0 /\ faces_detected = -1
    /\ primary_returned = FALSE
    /\ primary_raised = FALSE /\ pil_raised = FALSE /\ parsed = FALSE
    /\ fault = "none" /\ pil_fault = FALSE

Init ==
    /\ server \in Servers
    /\ available \in BOOLEAN
    /\ waiting = FALSE
    /\ pc = "idle"
    /\ prior = NoPrior /\ NoBoxes
    /\ NoRequest

\* a client connects; TCPServer handles one request at a time, so a
\* connection made while a request is in progress waits until the handler
\* of that request has returned
Arrive ==
    /\ ~waiting
    /\ waiting' = TRUE
    /\ UNCHANGED <<boxes, process, pc, request, image_data, parameters, result,
                   responses, engines, parsed, prior>>

\* GET /api/status
handle_status_request ==
    /\ pc = "idle" /\ waiting
    /\ waiting' = FALSE
    /\ responses' = <<StatusResponse(server, available)>>
    /\ pc' = "status_done"
    /\ UNCHANGED <<boxes, process, request, image_data, parameters, result,
                   engines, parsed, prior>>

\* GET of any other path: the interface page or a static file, 404 when
\* the file does not exist
do_GET ==
    /\ pc = "idle" /\ waiting
    /\ waiting' = FALSE
    /\ \E exists \in BOOLEAN :
          responses' = <<Response(server, IF exists THEN 200 ELSE 404,
                                  "page", NoResult, {})>>
    /\ pc' = "page_done"
    /\ UNCHANGED <<boxes, process, request, image_data, parameters, result,
                   engines, parsed, prior>>

\* OPTIONS: do_OPTIONS of the enhanced and fast handlers; the simulation
\* handler has no such method and the library answers 501
do_OPTIONS ==
    /\ pc = "idle" /\ waiting
    /\ waiting' = FALSE
    /\ responses' = <<Response(server,
                               IF server = "python" THEN 501 ELSE 200,
                               "page", NoResult, {})>>
    /\ pc' = "page_done"
    /\ UNCHANGED <<boxes, process, request, image_data, parameters, result,
                   engines, parsed, prior>>

\* POST of a path other than /api/enhance
NotFound ==
    /\ pc = "idle" /\ waiting
    /\ waiting' = FALSE
    /\ responses' = <<Response(server, 404, "page", NoResult, {})>>
    /\ pc' = "page_done"
    /\ UNCHANGED <<boxes, process, request, image_data, parameters, result,
                   engines, parsed, prior>>

\* the rasters a request can carry: small ones and the 100 x 100 one
Sizes ==
    ((1 .. MaxWidth) \X (1 .. MaxHeight)) \cup {<<ScenarioSide, ScenarioSide>>}

\* POST /api/enhance: the handler reads Content-Length and the body; a
\* request without the header raises in int(None)
do_POST ==
    /\ pc = "idle" /\ waiting
    /\ waiting' = FALSE
    /\ \E body \in Bodies, hd \in Headers, size \in Sizes,
          n \in 0 .. MaxFaces, has_length \in BOOLEAN :
          \* only the simulation server reads the headers, and it never
          \* decodes the image; only the enhanced server looks for faces,
          \* and a raster below minSize shows none it could find
          /\ server # "python" => hd = "boundary"
          /\ server = "python" => size = <<1, 1>>
          /\ (server # "enhanced" \/ size[1] < MinFace) => n = 0
          /\ IF has_length
             THEN /\ post_data' = body /\ hdr' = hd
                  /\ width' = size[1] /\ height' = size[2]
                  /\ faces' = n
                  /\ pc' = "parse"
                  /\ UNCHANGED responses
             ELSE /\ hd = "boundary" /\ size = <<1, 1>> /\ body = <<"BND">>
                  /\ responses' = <<HandlerExcept(server, "int()")>>
                  /\ pc' = "done"
                  /\ UNCHANGED request
    /\ UNCHANGED <<boxes, process, image_data, parameters, result, engines, parsed,
                   prior>>

\* parse_multipart_data and the test of image_data
ParseStep ==
    /\ pc = "parse"
    /\ parsed' = TRUE
    /\ LET r == Parse(server, post_data, hdr)
       IN  /\ image_data' = r.image
           /\ parameters' = r.params
           /\ IF r.image = << >>
              THEN /\ \E broken \in BOOLEAN :
                         responses' = responses \o
                             Answer(server, NoImageResponse(server), broken)
                   /\ pc' = "done"
              ELSE /\ pc' = IF server = "python" THEN "simulate" ELSE "enhance"
                   /\ UNCHANGED responses
    /\ UNCHANGED <<boxes, process, waiting, request, result, engines, prior>>

\* enhance_image_opencv / fast_enhance_image up to the call of the PIL
\* engine or the return of the primary result
EnhanceStep ==
    /\ pc = "enhance"
    /\ \E f \in PrimaryFaults :
          LET r == IF server = "enhanced"
                   THEN EnhancedPrimary(image_data, parameters, width, height,
                                        faces, faces_detected, f)
                   ELSE FastPrimary(image_data, parameters, width, height, f)
              raised == available /\ r.raised
          IN  /\ available \/ f = "none"
              /\ fault' = f
              /\ pc' = AfterPrimary(available, raised)
              /\ primary_raised' = raised
              /\ primary_returned' = (available /\ ~raised)
              /\ face_calls' = IF available THEN face_calls + r.face_calls
                               ELSE face_calls
              /\ faces_detected' = IF available THEN r.attr ELSE faces_detected
              /\ result' = IF available /\ ~raised THEN r.result ELSE result
    /\ UNCHANGED <<boxes, process, waiting, request, image_data, parameters,
                   responses, pil_calls, pil_raised, parsed, pil_fault, prior>>

\* basic_pil_enhancement; the PIL names exist exactly when the import block
\* that sets OPENCV_AVAILABLE succeeded
PilStep ==
    /\ pc = "pil"
    /\ \E f \in BOOLEAN :
          /\ pil_fault' = f
          /\ result' = IF server = "enhanced"
                       THEN EnhancedPil(image_data, parameters, width, height,
                                        available, f)
                       ELSE FastPil(image_data, parameters, width, height,
                                    available, f)
    /\ pil_raised' = ~result'.success
    /\ pil_calls' = pil_calls + 1
    /\ pc' = "respond"
    /\ UNCHANGED <<boxes, process, waiting, request, image_data, parameters,
                   responses, face_calls, faces_detected, primary_returned,
                   primary_raised, parsed, fault, prior>>

\* the handler writes the engine's result with status 200; the write of
\* the body may raise
RespondStep ==
    /\ pc = "respond"
    /\ \E broken \in BOOLEAN :
          responses' = responses \o
              Answer(server, ResultResponse(server, result), broken)
    /\ pc' = "done"
    /\ UNCHANGED <<boxes, process, waiting, request, image_data, parameters, result,
                   engines, parsed, prior>>

\* the simulation server builds and writes its result
SimulateStep ==
    /\ pc = "simulate"
    /\ IF MetricsOk(parameters)
       THEN /\ result' = Result(TRUE, "simulation", TRUE,
                                SimulateEnhancement(image_data, parameters), 0, -1, "")
            /\ \E broken \in BOOLEAN :
                  responses' = responses \o
                      Answer(server, ResultResponse(server, result'), broken)
       ELSE /\ responses' = Append(responses, HandlerExcept(server, "metrics"))
            /\ UNCHANGED result
    /\ pc' = "done"
    /\ UNCHANGED <<boxes, process, waiting, request, image_data, parameters,
                   engines, parsed, prior>>

\* the handler returns; the next request is served by a new handler object
Finish ==
    /\ pc \in {"done", "status_done", "page_done"}
    /\ pc' = "idle"
    /\ post_data' = << >> /\ hdr' = "none" /\ width' = 1 /\ height' = 1
    /\ faces' = 0
    /\ image_data' = << >> /\ parameters' = Dict(EmptyMap)
    /\ result' = NoResult /\ responses' = << >>
    /\ pil_calls' = 0 /\ face_calls' = 0
    /\ faces_detected' = HandlerAttr(faces_detected)
    /\ primary_returned' = FALSE
    /\ primary_raised' = FALSE /\ pil_raised' = FALSE /\ parsed' = FALSE
    /\ fault' = "none" /\ pil_fault' = FALSE
    /\ UNCHANGED <<boxes, process, waiting, prior>>

Next ==
    \/ Arrive
    \/ handle_status_request
    \/ do_GET
    \/ do_OPTIONS
    \/ NotFound
    \/ do_POST
    \/ ParseStep
    \/ EnhanceStep
    \/ PilStep
    \/ RespondStep
    \/ SimulateStep
    \/ Finish

Spec == Init /\ [][Next]_vars

----------------------------------------------------------------------------
(* The engines applied directly to a decodable image and a parameter       *)
(* record, whatever record the ingestion of a server would produce.        *)

Modes == {"gfpgan", "hybrid", "traditional", "fast"}

\* the records the JSON texts decode to, every mode with either value
\* of the face flag, and records that set the contrast or the blend
\* weight to zero or to a positive value
EngineParams ==
    { JsonLoads(j).val : j \in { t \in JsonTexts : JsonLoads(t).st = "ok" } }
    \cup { Dict(("mode" :> Str(m)) @@ ("enableFaceEnhancement" :> Bool(b))) :
             m \in Modes, b \in BOOLEAN }
    \cup { Dict(k :> Num(n)) : k \in {"contrast", "blendWeight"},
                               n \in {0, 130} }

EngineInit ==
    /\ server \in {"enhanced", "fast"}
    /\ available = TRUE
    /\ waiting = FALSE
    /\ pc = "engine"
    /\ prior = NoPrior /\ NoBoxes
    /\ post_data = << >> /\ hdr = "none"
    /\ \E size \in Sizes : width = size[1] /\ height = size[2]
    /\ faces \in 0 .. MaxFaces
    /\ (server # "enhanced" \/ width < MinFace) => faces = 0
    /\ image_data = <<"DIMG", "B">>
    /\ parameters \in EngineParams
    /\ result = NoResult /\ responses = << >>
    /\ pil_calls = 0 /\ face_calls = 0 /\ faces_detected = -1
    /\ primary_returned = FALSE
    /\ primary_raised = FALSE /\ pil_raised = FALSE /\ parsed = TRUE
    /\ fault = "none" /\ pil_fault = FALSE

\* the primary try block of the serving class
EnginePrimary ==
    /\ pc = "engine"
    /\ \E f \in PrimaryFaults :
          LET r == IF server = "enhanced"
                   THEN EnhancedPrimary(image_data, parameters, width, height,
                                        faces, faces_detected, f)
                   ELSE FastPrimary(image_data, parameters, width, height, f)
          IN  /\ fault' = f
              /\ primary_raised' = r.raised
              /\ primary_returned' = ~r.raised
              /\ face_calls' = face_calls + r.face_calls
              /\ faces_detected' = r.attr
              /\ result' = r.result
    /\ pc' = "engine_done"
    /\ UNCHANGED <<boxes, process, waiting, request, image_data, parameters,
                   responses, pil_calls, pil_raised, parsed, pil_fault, prior>>

\* basic_pil_enhancement of the serving class
EnginePil ==
    /\ pc = "engine"
    /\ \E f \in BOOLEAN :
          /\ pil_fault' = f
          /\ result' = IF server = "enhanced"
                       THEN EnhancedPil(image_data, parameters, width, height,
                                        available, f)
                       ELSE FastPil(image_data, parameters, width, height,
                                    available, f)
    /\ pil_raised' = ~result'.success
    /\ pil_calls' = pil_calls + 1
    /\ pc' = "engine_done"
    /\ UNCHANGED <<boxes, process, waiting, request, image_data, parameters,
                   responses, face_calls, faces_detected, primary_returned,
                   primary_raised, parsed, fault, prior>>

EngineNext == EnginePrimary \/ EnginePil

SpecEngines == EngineInit /\ [][EngineNext]_vars

----------------------------------------------------------------------------
(* The passthrough of the simulation server run twice on one payload.      *)

\* the payloads the ingestion of the simulation server hands over, and one
\* that does not start with the data:image marker
SimPayloads ==
    ({ PythonParse(b, h).image : b \in Bodies, h \in Headers } \ { << >> })
    \cup { <<"B", "CR", "LF">> }

SimInit ==
    /\ server = "python"
    /\ available \in BOOLEAN
    /\ waiting = FALSE
    /\ pc = "sim_first"
    /\ prior = NoPrior /\ NoBoxes
    /\ post_data = << >> /\ hdr = "none" /\ width = 1 /\ height = 1
    /\ faces = 0
    /\ image_data \in SimPayloads
    /\ parameters \in EngineParams
    /\ result = NoResult /\ responses = << >>
    /\ pil_calls = 0 /\ face_calls = 0 /\ faces_detected = -1
    /\ primary_returned = FALSE
    /\ primary_raised = FALSE /\ pil_raised = FALSE /\ parsed = TRUE
    /\ fault = "none" /\ pil_fault = FALSE

\* the first run; the second one may come with other parameters
SimulateFirst ==
    /\ pc = "sim_first"
    /\ prior' = [image |-> image_data,
                 out |-> SimulateEnhancement(image_data, parameters)]
    /\ parameters' \in EngineParams
    /\ pc' = "sim_second"
    /\ UNCHANGED <<boxes, process, waiting, request, image_data, result, responses,
                   engines, parsed>>

\* the second run on the same payload
SimulateSecond ==
    /\ pc = "sim_second"
    /\ result' = Result(TRUE, "simulation", TRUE,
                        SimulateEnhancement(image_data, parameters), 0, -1, "")
    /\ pc' = "sim_done"
    /\ UNCHANGED <<boxes, process, waiting, request, image_data, parameters,
                   responses, engines, parsed, prior>>

SimNext == SimulateFirst \/ SimulateSecond

SpecSimulate == SimInit /\ [][SimNext]_vars

----------------------------------------------------------------------------
(* The face loop of enhance_faces applied to any box the detector can      *)
(* return for a frame.                                                     *)

\* frames large enough to show a face: the 100 x 100 one and a flat one
FaceFrames == {<<ScenarioSide, ScenarioSide>>, <<ScenarioSide, 60>>}

\* boxes inside a frame of the given width and height, no smaller than
\* the detector's minSize
FaceBoxes(frame_w, frame_h) ==
    { b \in [x : {0, 5, 10, 25, 50}, y : {0, 5, 10, 25, 50},
             w : {MinFace, 60, 75, ScenarioSide},
             h : {MinFace, 60, 75, ScenarioSide}] :
        b.x + b.w <= frame_w /\ b.y + b.h <= frame_h }

FaceBoxInit ==
    /\ server = "enhanced"
    /\ available = TRUE
    /\ waiting = FALSE
    /\ pc = "face_loop"
    /\ prior = NoPrior
    /\ post_data = << >> /\ hdr = "none"
    /\ \E size \in FaceFrames : width = size[1] /\ height = size[2]
    /\ faces = 1
    /\ face \in FaceBoxes(width, height)
    /\ face_region = NoRegion
    /\ image_data = <<"DIMG", "B">>
    /\ parameters = EnhancedDefaults
    /\ result = NoResult /\ responses = << >>
    /\ pil_calls = 0 /\ face_calls = 1 /\ faces_detected = 1
    /\ primary_returned = FALSE
    /\ primary_raised = FALSE /\ pil_raised = FALSE /\ parsed = TRUE
    /\ fault = "none" /\ pil_fault = FALSE

\* one pass of the loop up to the extraction of face_region
ExtractFaceRegion ==
    /\ pc = "face_loop"
    /\ face_region' = FaceRegion(Frame(width, height, << >>),
                                 face.x, face.y, face.w, face.h)
    /\ pc' = "face_extracted"
    /\ UNCHANGED <<face, process, waiting, request, image_data, parameters,
                   result, responses, engines, parsed, prior>>

FaceBoxNext == ExtractFaceRegion

SpecFaceBox == FaceBoxInit /\ [][FaceBoxNext]_vars

----------------------------------------------------------------------------
(* Properties.                                                             *)

\* the response that answers the request: the one the handler writes
\* first (a second one exists only when the write of that one raised)
Reply == responses[1]

\* the default record of the specification's data model
DocumentedDefaults ==
    Dict(("mode" :> Str("gfpgan")) @@ ("scaleFactor" :> Num(200))
         @@ ("sharpenStrength" :> Num(120)) @@ ("noiseReduction" :> Num(600))
         @@ ("contrast" :> Num(115)) @@ ("blendWeight" :> Num(80))
         @@ ("enableFaceEnhancement" :> Bool(TRUE)))

\* C1: a request whose body yields no image payload is answered with one
\* response of a 4xx status carrying {success: false, error: <string>},
\* never with a 2xx status.
C1_NoImageIsClientError ==
    (pc = "done" /\ parsed /\ image_data = << >>) =>
        /\ Len(responses) = 1
        /\ responses[1].status \in 400 .. 499
        /\ ~responses[1].body.success
        /\ responses[1].body.error # ""

\* C2: every enhance request, whatever its body and headers and whichever
\* tiers are unavailable or raise, ends with a JSON result that carries a
\* boolean success, and an error string when success is false.
C2_AlwaysJsonResult ==
    pc = "done" =>
        /\ Len(responses) >= 1
        /\ Reply.kind = "result"
        /\ Reply.body.success \in BOOLEAN
        /\ ~Reply.body.success => Reply.body.error # ""

\* a request that lost both engines: OpenCV missing and the PIL engine raised
C2_Witness ==
    pc = "done" /\ server = "enhanced" /\ ~available /\ pil_raised
    /\ ~Reply.body.success /\ Reply.body.error = "Enhancement failed"

\* C3: with the primary capability absent, /api/status reports
\* available = false and every enhance request that carries an image is
\* answered with success = true and method = "simulation".
C3_AbsentCapabilityMeansSimulation ==
    ~available =>
        /\ pc = "status_done" => ~responses[1].available
        /\ (pc = "done" /\ parsed /\ image_data # << >>) =>
              Reply.body.success /\ Reply.body.method = "simulation"

\* C4: the PIL engine is entered only when OpenCV is unavailable or the
\* primary path raised, at most once per request, and never after the
\* primary path returned a result.
C4_TiersInOrder ==
    /\ pil_calls <= 1
    /\ (pc = "pil" \/ pil_calls = 1) =>
          (~available \/ primary_raised) /\ ~primary_returned
    /\ primary_returned => pc \in {"respond", "done"} /\ pil_calls = 0

\* a request that fell back to the PIL engine after the primary path raised
C4_Witness ==
    pc = "done" /\ available /\ primary_raised /\ pil_calls = 1
    /\ Reply.body.method = "PIL Enhanced Processing"

\* C5: when the PIL engine raises, the request is completed by the
\* passthrough tier: success = true, method = "simulation", the image
\* returned.
C5_PilFailureFallsToSimulation ==
    (pc = "done" /\ pil_raised) =>
        Reply.body.success /\ Reply.body.method = "simulation"
        /\ Reply.body.enhanced

\* the parameters field is missing or malformed and no legacy fragment
\* decodes either
NoUsableParameters(data) ==
    LET d == DecodeUtf8Ignore(data)
        f == FieldValue(d, "NPAR")
        j == JsonLoads(f.value)
    IN  /\ ~f.found \/ j.st # "ok" \/ j.val = Dict(EmptyMap)
        /\ (j.st = "deep" /\ f.found) \/ LegacyParameters(d, 1).st = "none"

\* C6: for a body whose parameters field is missing or malformed,
\* parse_multipart_data returns exactly the documented default record.
C6_DefaultsOnUnusableParameters ==
    (parsed /\ server \in {"enhanced", "fast"} /\ NoUsableParameters(post_data))
        => parameters = DocumentedDefaults

\* C7: a malformed or unknown parameter value never turns the result into
\* a failure: with a decodable image, both libraries present and no
\* primitive failing, the request ends with an enhanced image.
C7_MalformedValueStillEnhances ==
    (pc = "done" /\ server = "enhanced" /\ available /\ parsed
        /\ Decodable(image_data) /\ IsDict(parameters)
        /\ fault = "none" /\ ~pil_fault)
        => Reply.body.success /\ Reply.body.enhanced

\* the end of the inline payload as the claim states it: the first line
\* terminator (CR LF or LF), else the next boundary, else the end of input
ClaimedImageEnd(d, start) ==
    LET ends == {Find(d, <<"CR", "LF">>, start), Find(d, <<"LF">>, start)} \ {-1}
        bnd  == Find(d, <<"BND">>, start)
    IN  IF ends # {} THEN Min(ends)
        ELSE IF bnd # -1 THEN bnd
        ELSE Len(d)

\* C8: an inline data:image/ payload starts at the marker and ends at the
\* first line terminator that follows it, else at the next boundary, else
\* at the end of input (surrounding whitespace removed).
C8_InlinePayloadEndsAtFirstTerminator ==
    LET d == DecodeUtf8Ignore(post_data)
        start == Find(d, <<"DIMG">>, 0)
    IN  (parsed /\ server \in {"enhanced", "fast"} /\ start # -1
            /\ ~Parse(server, post_data, hdr).caught)
            => image_data = Strip(Slice(d, start, ClaimedImageEnd(d, start)))

\* C9: the scale factor reported in the metrics of a successful result is
\* the measured ratio output width / input width rounded to one decimal.
C9_ReportedScaleIsMeasured ==
    (pc = "done" /\ server \in {"enhanced", "fast"} /\ Reply.body.success)
        => Reply.body.scale_factor = Round1(Reply.body.frame.w, width)

ResizeOps == {"resize:LANCZOS4", "resize:CUBIC", "resize:LINEAR",
              "resize:LANCZOS", "resize:BILINEAR"}

ScaleIsOne ==
    /\ IsDict(parameters)
    /\ "scaleFactor" \in DOMAIN parameters.d
    /\ parameters.d["scaleFactor"] = Num(100)

\* C10: with scaleFactor = 1.0 no engine invokes a resize and the output
\* frame has the input's width and height.
C10_ScaleOneSkipsUpscale ==
    (pc = "engine_done" /\ ScaleIsOne /\ result.success) =>
        /\ result.frame.w = width /\ result.frame.h = height
        /\ \A i \in 1 .. Len(result.frame.ops) :
              result.frame.ops[i] \notin ResizeOps

\* the primary engine of the enhanced server returned for scaleFactor = 1.0
\* on an image larger than one pixel
C10_Witness ==
    pc = "engine_done" /\ ScaleIsOne /\ result.success
    /\ server = "enhanced" /\ primary_returned /\ width > 1

\* the mode and the face flag a run reads from the parameters
ModeOf(p) == Get(p, "mode", Str("gfpgan"))
FaceFlagOf(p) == Get(p, "enableFaceEnhancement", Bool(TRUE))

\* C11: in a primary run that reaches the face stage, enhance_faces is
\* called if and only if mode is gfpgan or hybrid and enableFaceEnhancement
\* is true; it is never called for mode fast or traditional, in a run that
\* stopped before the stage, or by the fast engine.
C11_FaceStageGating ==
    (pc = "engine_done" /\ pil_calls = 0 /\ IsDict(parameters)) =>
        LET gate == /\ ModeOf(parameters) \in {Str("gfpgan"), Str("hybrid")}
                    /\ FaceFlagOf(parameters) = Bool(TRUE)
        IN  /\ face_calls \in {0, 1}
            /\ face_calls = 1 => server = "enhanced" /\ gate
            /\ (server = "enhanced" /\ primary_returned /\ gate)
                  => face_calls = 1
            /\ ModeOf(parameters) \in {Str("fast"), Str("traditional")}
                  => face_calls = 0

\* a hybrid run with the flag set called the face enhancer on a raster
\* that shows faces
C11_Witness ==
    pc = "engine_done" /\ server = "enhanced" /\ primary_returned
    /\ IsDict(parameters) /\ ModeOf(parameters) = Str("hybrid")
    /\ FaceFlagOf(parameters) = Bool(TRUE)
    /\ face_calls = 1 /\ faces = 2

\* C12: a failure of one pipeline stage after stage 1 is caught locally:
\* the remaining stages run and the primary tier answers the request.
C12_StageFailureIsLocal ==
    (pc = "done" /\ server = "enhanced" /\ available /\ parsed
        /\ fault \in {"denoise", "sharpen", "contrast", "equalize", "color",
                      "polish"}
        /\ ~EnhancedPrimary(image_data, parameters, width, height, faces,
                            -1, "none").raised)
        => primary_returned /\ pil_calls = 0
           /\ Reply.body.method = OpenCvMethod(ModeOf(parameters).s)

\* C13: an exception inside enhance_faces, wherever it is raised, leaves
\* the frame as it was given and the reported faces_detected at 0.
C13_FaceErrorReportsNoFace ==
    (pc = "done" /\ primary_returned /\ face_calls = 1
        /\ fault \in {"face_cascade", "face_detect", "face_process"}
        /\ (fault = "face_process" => Detected(Reply.body.frame, faces) > 0))
        => /\ Reply.body.faces_detected = 0
           /\ \A i \in 1 .. Len(Reply.body.frame.ops) :
                 Reply.body.frame.ops[i] # "face_blend"

\* C14: when the detector returns no face, the reported face count is 0
\* and the face stage leaves the frame as it received it.
C14_NoFaceLeavesFrame ==
    (pc = "done" /\ primary_returned /\ face_calls = 1
        /\ fault \notin {"face_cascade", "face_detect"}
        /\ Detected(Reply.body.frame, faces) = 0)
        => /\ Reply.body.faces_detected = 0
           /\ \A i \in 1 .. Len(Reply.body.frame.ops) :
                 Reply.body.frame.ops[i] # "face_blend"
           /\ enhance_faces(Reply.body.frame, faces, fault).frame
                 = Reply.body.frame

\* the detector ran on the 100 x 100 raster and found nothing
C14_Witness ==
    pc = "done" /\ primary_returned /\ face_calls = 1 /\ fault = "none"
    /\ width = ScenarioSide /\ faces = 0
    /\ Reply.body.faces_detected = 0

C16_EveryResponseHasCors ==
    \A i \in 1 .. Len(responses) : CorsHeaders \subseteq responses[i].headers

\* C17: when the encoding of the final buffer fails, the request is
\* answered with {success: false, error} and a 5xx status, and no other
\* tier is tried.
C17_EncodingErrorIsServerError ==
    (pc = "done" /\ server = "enhanced" /\ available /\ parsed
        /\ fault = "encode"
        /\ ~EnhancedPrimary(image_data, parameters, width, height, faces,
                            -1, "none").raised)
        => /\ Reply.status \in 500 .. 599
           /\ ~Reply.body.success /\ Reply.body.error # ""
           /\ pil_calls = 0

\* C18: the fast server turns a 100 x 100 image into a 200 x 200 one by
\* its fast path and lists no face entry; and no result lists face
\* enhancement among algorithms_applied when enhance_faces was not called.
C18_NoFaceEntryWithoutFaceStage ==
    /\ (pc = "done" /\ server = "fast" /\ primary_returned
           /\ width = ScenarioSide /\ height = ScenarioSide)
          => /\ Reply.body.frame.w = 2 * ScenarioSide
             /\ Reply.body.frame.h = 2 * ScenarioSide
             /\ Reply.body.method = "Ultra-Fast OpenCV Enhancement"
    /\ (pc = "done" /\ primary_returned /\ face_calls = 0)
          => \A i \in 1 .. Len(Reply.body.algorithms_applied) :
                Reply.body.algorithms_applied[i] # "Face Enhancement"

C20_FormFieldIsTheRecord ==
    LET d == DecodeUtf8Ignore(post_data)
        f == FieldValue(d, "NPAR")
        j == JsonLoads(f.value)
    IN  (parsed /\ server \in {"enhanced", "fast"} /\ f.found
            /\ j.st = "ok" /\ j.val.kind = "dict" /\ j.val # Dict(EmptyMap)
            /\ ~Parse(server, post_data, hdr).caught)
            => parameters = j.val

\* C21: when the body of a request to the enhanced server holds no inline
\* image marker, the value of the form field named image (from the first
\* blank line after the field name to the next boundary) is returned as
\* the image payload
C21_FieldImageFallback ==
    LET d == DecodeUtf8Ignore(post_data)
        f == FieldValue(d, "NIMG")
    IN  (parsed /\ server = "enhanced" /\ ~Contains(d, <<"DIMG">>)
            /\ f.found /\ ~Parse(server, post_data, hdr).caught)
            => image_data = f.value

\* the substring the legacy scan cuts out for anchor number p
AnchorText(data_str, p) ==
    LET params_start == Find(data_str, json_patterns[p], 0)
    IN  Slice(data_str, params_start,
              BraceScan(data_str, params_start, params_start, 0))

\* opening braces minus closing braces
BraceBalance(s) ==
    Cardinality({i \in 1 .. Len(s) : s[i] = "{"})
        - Cardinality({i \in 1 .. Len(s) : s[i] = "}"})

\* C22: when the parameters field of a request to the enhanced server
\* yields no record, the anchors are tried in their fixed order: the scan
\* never raises, every extracted substring has balanced braces, and the
\* record is the decoded substring of the first anchor that decodes (the
\* defaults when none does)
C22_LegacyAnchorScan ==
    LET d == DecodeUtf8Ignore(post_data)
        form == FieldParameters(d)
        anchors == {p \in 1 .. Len(json_patterns) :
                       Find(d, json_patterns[p], 0) # -1}
        decoded(p) == JsonLoads(UnescapeQuotes(AnchorText(d, p)))
        usable == {p \in anchors : decoded(p).st = "ok"}
        first == CHOOSE p \in usable : \A q \in usable : p <= q
    IN  (parsed /\ server = "enhanced" /\ form.st # "deep"
            /\ ~(form.st = "ok" /\ Truthy(form.val)))
            => /\ ~Parse(server, post_data, hdr).caught
               /\ \A p \in anchors : BraceBalance(AnchorText(d, p)) = 0
               /\ parameters = IF usable = {} THEN EnhancedDefaults
                                ELSE decoded(first).val

\* the transforms recorded in the frame of the result
ResultOps == {result.frame.ops[i] : i \in 1 .. Len(result.frame.ops)}

\* C23: a primary run of the enhanced server that upscales uses the
\* highest-quality kernel (Lanczos) exactly when mode is gfpgan or hybrid,
\* and the cheaper cubic kernel for every other mode
C23_KernelByMode ==
    (pc = "engine_done" /\ server = "enhanced" /\ primary_returned
        /\ ResultOps \cap ResizeOps # {})
        => LET best == ModeOf(parameters) \in {Str("gfpgan"), Str("hybrid")}
           IN  /\ "resize:LANCZOS4" \in ResultOps <=> best
               /\ "resize:CUBIC" \in ResultOps <=> ~best

\* the number a primary run of the enhanced server reads for a key
PrimaryValue(key) == Float(Get(parameters, key, Num(PrimaryDefaults[key])))

\* C24: in a primary run of the enhanced server a parameter-governed
\* stage is skipped iff its parameter is <= 0 (denoise: noiseReduction,
\* sharpen: sharpenStrength, contrast gain: contrast, final polish:
\* blendWeight) and the upscale stage iff scaleFactor <= 1.0; a skipped
\* stage leaves no transform in the buffer
C24_StageSkippedIffNotPositive ==
    (pc = "engine_done" /\ server = "enhanced" /\ primary_returned)
        => /\ ResultOps \cap ResizeOps = {}
                  <=> PrimaryValue("scaleFactor") <= 100
           /\ "bilateral" \notin ResultOps
                  <=> PrimaryValue("noiseReduction") <= 0
           /\ {"unsharp", "edge_kernel_blend"} \cap ResultOps = {}
                  <=> PrimaryValue("sharpenStrength") <= 0
           /\ "contrast_gain" \notin ResultOps
                  <=> PrimaryValue("contrast") <= 0
           /\ "polish" \notin ResultOps
                  <=> PrimaryValue("blendWeight") <= 0

\* the stage a transform belongs to, numbered as the pipeline documents
StageOf(op) ==
    CASE op \in ResizeOps -> 1
      [] op = "bilateral" -> 2
      [] op \in {"unsharp", "edge_kernel_blend"} -> 3
      [] op = "contrast_gain" -> 4
      [] op = "clahe_luma" -> 5
      [] op = "face_blend" -> 6
      [] op = "hsv_boost" -> 7
      [] op = "polish" -> 8

\* C25: in every primary run of the enhanced server the stages that
\* execute do so in the order upscale, denoise, sharpen, contrast gain,
\* luma equalization, face enhancement, color enhancement, final polish,
\* each at most once and each on the output of the one before: the
\* returned buffer records the transforms stage by stage, the two
\* sharpening transforms in their order, and no transform of a stage
\* other than the per-face compositing twice
C25_StagesInFixedOrder ==
    (pc = "engine_done" /\ server = "enhanced" /\ primary_returned)
        => LET ops == result.frame.ops
           IN  /\ \A i, j \in 1 .. Len(ops) :
                     i < j => /\ StageOf(ops[i]) <= StageOf(ops[j])
                              /\ ops[i] = ops[j] => ops[i] = "face_blend"
                              /\ ops[j] = "unsharp"
                                    => ops[i] # "edge_kernel_blend"

\* a primary run in which all eight stages executed, two faces composited
C25_Witness ==
    pc = "engine_done" /\ server = "enhanced" /\ primary_returned
    /\ {StageOf(op) : op \in ResultOps} = 1 .. 8
    /\ Len(result.frame.ops) = 10

\* the primary run of the enhanced server on the request in hand
PrimaryRun ==
    apply_real_enhancement(Frame(width, height, << >>), parameters,
                           ModeOf(parameters), faces, fault)

C27_PaddedRegionInsideFrame ==
    pc = "face_extracted"
        => LET r == face_region
           IN  /\ r.face_x1 = (IF face.x > 10 THEN face.x - 10 ELSE 0)
               /\ r.face_y1 = (IF face.y > 10 THEN face.y - 10 ELSE 0)
               /\ r.face_x2 = (IF face.x + face.w + 10 < width
                               THEN face.x + face.w + 10 ELSE width)
               /\ r.face_y2 = (IF face.y + face.h + 10 < height
                               THEN face.y + face.h + 10 ELSE height)
               /\ 0 <= r.face_x1 /\ r.face_x1 <= face.x
               /\ face.x + face.w <= r.face_x2 /\ r.face_x2 <= width
               /\ 0 <= r.face_y1 /\ r.face_y1 <= face.y
               /\ face.y + face.h <= r.face_y2 /\ r.face_y2 <= height
               /\ r.face_x1 < r.face_x2 /\ r.face_y1 < r.face_y2

\* a box near the left edge and the bottom edge: the padding is cut on
\* those two sides and whole on the other two
C27_Witness ==
    pc = "face_extracted" /\ face.x = 5 /\ face_region.face_x1 = 0
    /\ face_region.face_y2 = height /\ face_region.face_y1 = face.y - 10
    /\ face_region.face_x2 = face.x + face.w + 10

\* C28: every POST /api/enhance is answered with exactly one HTTP response
\* (one status line and one header block): no error response follows a
\* response already sent for the same request, also when writing the
\* result body raises
C28_ExactlyOneResponse ==
    pc = "done" => Len(responses) = 1

\* C29: the second value parse_multipart_data returns is a key/value
\* mapping for every request body: a parameters field or fragment that
\* decodes to a list, a string or a number is never returned as the record
C29_ParametersAreAMapping ==
    parsed => IsDict(parameters)

\* the number each place of the serving class uses for a key the record
\* lacks: parse_multipart_data, the primary engine, the PIL engine
SynthesizedDefault(key) ==
    (IF server = "enhanced" THEN EnhancedDefaults ELSE FastDefaults).d[key].n
PrimaryDefault(key) ==
    (IF server = "enhanced" THEN PrimaryDefaults ELSE FastPrimaryDefaults)[key]
SecondaryDefault(key) ==
    (IF server = "enhanced" THEN PilDefaults ELSE FastPilDefaults)[key]

\* C30: for a record that lacks scaleFactor, sharpenStrength or contrast,
\* the value used for the key is the same in every place of one server
\* that reads it: the synthesized defaults, the primary engine and the
\* PIL engine agree, so that a request that falls back from tier 1 to
\* tier 2 is processed with the same effective parameters
C30_DefaultsAgreeAcrossTiers ==
    (pc = "done" /\ server \in {"enhanced", "fast"} /\ primary_raised
        /\ pil_calls = 1 /\ result.success)
        => \A key \in {"scaleFactor", "sharpenStrength", "contrast"}
                 \ DOMAIN parameters.d :
              /\ PrimaryDefault(key) = SynthesizedDefault(key)
              /\ SecondaryDefault(key) = PrimaryDefault(key)

====
